---- MODULE Spec2Model ----
(***************************************************************************)
(* Ambot Converter (src/bot.py, src/ambot_aiosqlite.py): the conversion    *)
(* orchestration of the bot.  The ledger (users and conversions tables),   *)
(* the per-user session dicts (user_state), the per-user queues and worker *)
(* tasks, the global semaphore, the executor thread running yt-dlp and the *)
(* finalizer task are modelled as one state machine.                       *)
(*                                                                         *)
(* Time is counted in units of eight hours: a calendar day is DayLen = 3   *)
(* units, the fixed UTC+8 offset of the rate window is TzOffset = 1 unit,  *)
(* and the cooldown is configured to one unit.                             *)
(*                                                                         *)
(* Nine specifications share the state and the actions:                    *)
(*   Spec        every owner, from open dialogues, on the plain path;      *)
(*   OwnerSpec   one owner, every input of the dialogue and every fault;   *)
(*   RaceSpec    admission handlers of one owner interleaved at their      *)
(*               awaits;                                                   *)
(*   LedgerSpec  the operations that change a balance outside a job;       *)
(*   WindowSpec  one owner's admissions over more than one calendar day;   *)
(*   DailySpec   the daily reward tasks interleaved at their awaits;       *)
(*   CostSpec    one admission, every kind with every quality button;      *)
(*   ReportSpec  the reporting loop over every sequence of progress values;*)
(*   FairSpec    Spec with every task that can run eventually running.     *)
(***************************************************************************)
EXTENDS Integers, Sequences, FiniteSets, TLC

\* ---------------------------------------------------------------- bounds
NumOwners == 2
MaxJobs == 2
MaxDicts == 3
MaxTime == 1
MaxFaults == 1
MaxCredits == 2
MaxConcurrency == 1
NumHandlers == 3
NumRuns == 2
MaxWindowTime == 2
MaxWindowJobs == 3
MaxCostJobs == 1
MaxPolls == 4

Owners == 1..NumOwners
DictIds == 1..MaxDicts
Handlers == 1..NumHandlers
Runs == 1..NumRuns
NULL == -1

\* ------------------------------------------------- configuration (bot.py)
AUDIO_COSTS == [k \in {128, 192, 320} |-> CASE k = 128 -> 20 [] k = 192 -> 30 [] k = 320 -> 40]
VIDEO_COSTS == [k \in {144, 360, 720, 1080} |->
                  CASE k = 144 -> 30 [] k = 360 -> 50 [] k = 720 -> 80 [] k = 1080 -> 120]
DAILY_REWARD == 20
REGISTER_BONUS == 500
DAILY_LIMIT_PER_USER == 2
COOLDOWN_SECONDS == 1
DayLen == 3
TzOffset == 1

\* The quality buttons a user presses (callback data "audioq:<k>", "videoq:<k>"),
\* the kinds ("type:<t>") and the amounts an admin passes to /addcoins.
Kvals == {128}
Types == {"audio", "video"}
AdminAmounts == {-30, 30}
\* The balance an account holds when the bot starts (the store is persistent):
\* it pays one job of each kind (20 + 120).
StartCoins == 140

VARIABLES
  now,                \* the clock (datetime.utcnow), in units of eight hours
  GLOBAL_CONCURRENCY, \* the capacity the semaphore was built with
  coins, music_count, video_count,             \* users table
  registered, last_daily_date,
  daily_count, daily_count_date, last_conversion_at,
  conversions,        \* conversions table: row id = index
  dicts,              \* the heap of session dicts (the values of user_state)
  user_state,         \* user id -> dict (0: no entry)
  user_queues,        \* user id -> the payloads waiting in its asyncio.Queue
  queue_present,      \* user id in user_queues
  user_queue_tasks,   \* user id -> "absent" | "pending" | "done"
  wpc, cur,           \* each worker task's position and the job it holds
  sem_value,          \* global_semaphore._value (free units)
  finalizers,         \* async_finalize_and_update tasks created and not yet run
  hpc, hloc,          \* RaceSpec: each callback_router call's position and locals
  report_pc,          \* ReportSpec: the reporting loop's position
  last_text,          \* the loop's last_text (NoText: None)
  pushes,             \* history: the texts the loop and the final edit pushed
  polls,              \* history: iterations of the loop so far
  runs,               \* each give_daily task's position and locals
  rewarded,           \* history, per account: the days a daily reward was credited for
  jobs,               \* history, per conversion id: what happened to that job
  credited,           \* history: coins an account got outside any job
  credit_ops,         \* history: registrations and /addcoins commands so far
  faults,             \* history: store/transport calls that raised so far
  event               \* what the last step told the user (NoEvent: nothing)

rate == <<daily_count, daily_count_date, last_conversion_at>>
users == <<coins, music_count, video_count, registered, last_daily_date, rate>>
ledger == <<users, conversions>>
session == <<dicts, user_state>>
tasks == <<user_queues, queue_present, user_queue_tasks, wpc, cur, sem_value>>
handlers == <<hpc, hloc>>
scheduler == <<runs, rewarded>>
reporter == <<report_pc, last_text, pushes, polls>>
vars == <<now, GLOBAL_CONCURRENCY, scheduler, reporter, ledger, session, tasks, finalizers, handlers,
          jobs, credited, credit_ops, faults, event>>

\* ---------------------------------------------------------------- helpers
MaxOf(S) == CHOOSE x \in S : \A y \in S : y <= x
Range(f) == {f[x] : x \in DOMAIN f}

\* datetime.now(timezone(timedelta(hours=8))).date()
today == (now + TzOffset) \div DayLen

BlankDict == [session |-> FALSE, type |-> "none", cost |-> 0, conversion_id |-> 0]
\* The dict start_search_flow makes: title, chat_id and from_user_id are set.
SessionDict == [BlankDict EXCEPT !.session = TRUE]
NoJob == [d |-> 0, jid |-> 0, typ |-> "none"]
NoLocals == [owner |-> 0, d |-> 0, kval |-> 0, cost |-> 0, seen |-> 0, res |-> "none"]
\* last_text = None
NoText == [bar |-> NULL, pct |-> NULL, status |-> "none"]
\* A give_daily task not yet started: today_str, the rows of its SELECT (uid ->
\* last_daily_date) and the index of the row its loop is at.
NoRun == [pc |-> "idle", today_str |-> NULL, rows |-> <<>>, i |-> 0]
NoEvent ==
  [op |-> "none", owner |-> 0, res |-> "none", jid |-> 0, notice |-> "none",
   fault |-> "none"]
Ev(op, u, res, jid, notice) ==
  [op |-> op, owner |-> u, res |-> res, jid |-> jid, notice |-> notice,
   fault |-> "none"]

\* History of one job: how far its production got ("queued", "taken", "ok",
\* "error", "crashed"; "aborted": the handler ended before the enqueue), what
\* its finalizer did ("none", "pending", "delivered", "refund", "fail"), the
\* coins that finalizer credited, how much it lowered the counter of the job's
\* kind, the notice it sent, and the calendar day of the admission.
NewJob(stage) == [stage |-> stage, fin |-> "none", credit |-> 0, dec |-> 0,
                  notice |-> "none", day |-> today]

\* The dicts something still refers to; the others are garbage.
LiveDicts(us, qs, cs, fs, hl) ==
  {us[u] : u \in Owners} \cup {cs[u].d : u \in Owners}
    \cup {f.d : f \in fs} \cup {hl[h].d : h \in Handlers}
    \cup UNION {{qs[u][i].d : i \in 1..Len(qs[u])} : u \in Owners}

\* Garbage is blanked, so that two heaps differing in garbage are one state.
Collect(ds, us, qs, cs, fs, hl) ==
  [d \in DictIds |-> IF d \in LiveDicts(us, qs, cs, fs, hl) THEN ds[d] ELSE BlankDict]

\* "state = user_state.get(user_id, {})": the user's dict, or a new empty one
\* (the first dict nothing refers to).
FreeDictsFor(u) ==
  DictIds \ LiveDicts([user_state EXCEPT ![u] = 0], user_queues, cur, finalizers, hloc)
NewDictFor(u) == CHOOSE d \in FreeDictsFor(u) : \A e \in FreeDictsFor(u) : d <= e
StateOf(u) == IF user_state[u] # 0 THEN user_state[u] ELSE NewDictFor(u)
HasState(u) == user_state[u] # 0 \/ FreeDictsFor(u) # {}

\* ------------------------------------------------------------ initial states
InitBase ==
  /\ now = 0
  /\ GLOBAL_CONCURRENCY \in 1..MaxConcurrency
  /\ music_count = [u \in Owners |-> 0]
  /\ video_count = [u \in Owners |-> 0]
  /\ registered = [u \in Owners |-> FALSE]
  /\ last_daily_date = [u \in Owners |-> NULL]
  /\ daily_count = [u \in Owners |-> 0]
  /\ daily_count_date = [u \in Owners |-> NULL]
  /\ last_conversion_at = [u \in Owners |-> NULL]
  /\ conversions = <<>>
  /\ user_queues = [u \in Owners |-> <<>>]
  /\ queue_present = [u \in Owners |-> FALSE]
  /\ user_queue_tasks = [u \in Owners |-> "absent"]
  /\ wpc = [u \in Owners |-> "none"]
  /\ cur = [u \in Owners |-> NoJob]
  /\ sem_value = GLOBAL_CONCURRENCY
  /\ finalizers = {}
  /\ hpc = [h \in Handlers |-> "idle"]
  /\ hloc = [h \in Handlers |-> NoLocals]
  /\ report_pc = "loop"
  /\ last_text = NoText
  /\ pushes = <<>>
  /\ polls = 0
  /\ runs = [r \in Runs |-> NoRun]
  /\ rewarded = [u \in Owners |-> <<>>]
  /\ jobs = <<>>
  /\ credit_ops = 0
  /\ faults = 0
  /\ event = NoEvent

\* No dialogue is open.
NoDialogue ==
  /\ dicts = [d \in DictIds |-> BlankDict]
  /\ user_state = [u \in Owners |-> 0]

\* Every owner in S has sent a title and chosen "AUDIO (mp3)": the state after
\* start_search_flow and callback_router("type:audio") for each of them.
OpenDialogues(S) ==
  /\ dicts = [d \in DictIds |-> IF d \in S THEN [SessionDict EXCEPT !.type = "audio"]
                                ELSE BlankDict]
  /\ user_state = [u \in Owners |-> IF u \in S THEN u ELSE 0]

Funded(c) ==
  /\ coins = [u \in Owners |-> c]
  /\ credited = coins

Init == InitBase /\ NoDialogue /\ Funded(StartCoins)
InitDialogues == InitBase /\ OpenDialogues(Owners) /\ Funded(StartCoins)

\* ------------------------------------------------------- clock and credits
Advance(limit) ==
  /\ now < limit
  /\ now' = now + 1
  /\ event' = NoEvent
  /\ UNCHANGED <<GLOBAL_CONCURRENCY, reporter, scheduler, ledger, session, tasks, finalizers, handlers,
                 jobs, credited, credit_ops, faults>>

Tick == Advance(MaxTime)

\* add_coins: UPDATE users SET coins = coins + ? WHERE user_id = ?
add_coins(c, u, amount) == [c EXCEPT ![u] = @ + amount]

\* handle_start_text, "register": the bonus is paid once, registered_at is set.
Register(u) ==
  /\ ~registered[u]
  /\ credit_ops < MaxCredits
  /\ credit_ops' = credit_ops + 1
  /\ coins' = [coins EXCEPT ![u] = @ + REGISTER_BONUS]
  /\ registered' = [registered EXCEPT ![u] = TRUE]
  /\ credited' = [credited EXCEPT ![u] = @ + REGISTER_BONUS]
  /\ event' = NoEvent
  /\ UNCHANGED <<now, GLOBAL_CONCURRENCY, reporter, scheduler, music_count, video_count, last_daily_date,
                 rate, conversions, session, tasks, finalizers, handlers, jobs, faults>>

\* schedule_daily_reward.give_daily, for one row of its SELECT; when the
\* trigger fires is left free.
give_daily(u) ==
  /\ last_daily_date[u] # today
  /\ coins' = add_coins(coins, u, DAILY_REWARD)
  /\ last_daily_date' = [last_daily_date EXCEPT ![u] = today]
  /\ credited' = [credited EXCEPT ![u] = @ + DAILY_REWARD]
  /\ rewarded' = [rewarded EXCEPT ![u] = Append(@, today)]
  /\ event' = NoEvent
  /\ UNCHANGED <<now, GLOBAL_CONCURRENCY, reporter, runs, music_count, video_count, registered,
                 rate, conversions, session, tasks, finalizers, handlers, jobs,
                 credit_ops, faults>>

\* ----------------------------------------- the same task, await by await
\* Each firing of the trigger creates a task of its own (asyncio.create_task):
\* r names one, runs[r] holds its position and its local variables.

\* today_str and the SELECT: the task keeps the rows it read.
DailyBegin(r) ==
  /\ runs[r].pc = "idle"
  /\ runs' = [runs EXCEPT ![r] = [pc |-> "rows", today_str |-> today,
                                  rows |-> last_daily_date, i |-> 1]]
  /\ event' = NoEvent
  /\ UNCHANGED <<now, GLOBAL_CONCURRENCY, reporter, rewarded, ledger, session, tasks, finalizers,
                 handlers, jobs, credited, credit_ops, faults>>

\* The head of the loop: a row whose last_daily_date, as read by the SELECT, is
\* today_str is skipped; for another, add_coins runs (ok: it did not raise; an
\* exception is passed over and the loop goes to the next row).
DailyRow(r, ok) ==
  /\ runs[r].pc = "rows"
  /\ ok \/ faults < MaxFaults
  /\ LET u == runs[r].i
     IN IF u > NumOwners
        THEN /\ ok
             /\ runs' = [runs EXCEPT ![r].pc = "done"]
             /\ UNCHANGED <<coins, credited, rewarded, faults>>
        ELSE IF runs[r].rows[u] = runs[r].today_str
        THEN /\ ok
             /\ runs' = [runs EXCEPT ![r].i = @ + 1]
             /\ UNCHANGED <<coins, credited, rewarded, faults>>
        ELSE IF ok
        THEN /\ coins' = add_coins(coins, u, DAILY_REWARD)
             /\ credited' = [credited EXCEPT ![u] = @ + DAILY_REWARD]
             /\ rewarded' = [rewarded EXCEPT ![u] = Append(@, runs[r].today_str)]
             /\ runs' = [runs EXCEPT ![r].pc = "set"]
             /\ faults' = faults
        ELSE /\ runs' = [runs EXCEPT ![r].i = @ + 1]
             /\ faults' = faults + 1
             /\ UNCHANGED <<coins, credited, rewarded>>
  /\ event' = NoEvent
  /\ UNCHANGED <<now, GLOBAL_CONCURRENCY, reporter, music_count, video_count, registered,
                 last_daily_date, rate, conversions, session, tasks, finalizers,
                 handlers, jobs, credit_ops>>

\* set_last_daily for the row just credited (ok: it did not raise), then the
\* next row.
DailySet(r, ok) ==
  /\ runs[r].pc = "set"
  /\ ok \/ faults < MaxFaults
  /\ last_daily_date' = IF ok THEN [last_daily_date EXCEPT ![runs[r].i] = runs[r].today_str]
                        ELSE last_daily_date
  /\ faults' = IF ok THEN faults ELSE faults + 1
  /\ runs' = [runs EXCEPT ![r].pc = "rows", ![r].i = @ + 1]
  /\ event' = NoEvent
  /\ UNCHANGED <<now, GLOBAL_CONCURRENCY, reporter, rewarded, coins, music_count, video_count,
                 registered, rate, conversions, session, tasks, finalizers, handlers,
                 jobs, credited, credit_ops>>

\* admin_addcoins_cmd: int(args[1]) is any integer, add_coins applies it as is.
admin_addcoins_cmd(u, amount) ==
  /\ credit_ops < MaxCredits
  /\ credit_ops' = credit_ops + 1
  /\ coins' = add_coins(coins, u, amount)
  /\ credited' = [credited EXCEPT ![u] = @ + amount]
  /\ event' = NoEvent
  /\ UNCHANGED <<now, GLOBAL_CONCURRENCY, reporter, scheduler, music_count, video_count, registered,
                 last_daily_date, rate, conversions, session, tasks, finalizers,
                 handlers, jobs, faults>>

\* ------------------------------------------------------------ session flow
\* start_search_flow: user_state[user_id] = {"title", "chat_id", "from_user_id"}
start_search_flow(u) ==
  /\ FreeDictsFor(u) # {}
  /\ user_state' = [user_state EXCEPT ![u] = NewDictFor(u)]
  /\ dicts' = Collect([dicts EXCEPT ![NewDictFor(u)] = SessionDict],
                      user_state', user_queues, cur, finalizers, hloc)
  /\ event' = NoEvent
  /\ UNCHANGED <<now, GLOBAL_CONCURRENCY, reporter, scheduler, ledger, tasks, finalizers, handlers,
                 jobs, credited, credit_ops, faults>>

\* callback_router, data "type:<typ>": the dict is changed in place.
callback_type(u, typ) ==
  /\ HasState(u)
  /\ user_state' = [user_state EXCEPT ![u] = StateOf(u)]
  /\ dicts' = [dicts EXCEPT ![StateOf(u)].type = typ]
  /\ event' = NoEvent
  /\ UNCHANGED <<now, GLOBAL_CONCURRENCY, reporter, scheduler, ledger, tasks, finalizers, handlers,
                 jobs, credited, credit_ops, faults>>

\* --------------------------------------------------------------- admission
\* A price looked up by the button pressed, whatever kind the dict holds.
CostOf_by_button(typ, kval) ==
  IF kval \in DOMAIN AUDIO_COSTS THEN AUDIO_COSTS[kval]
  ELSE IF kval \in DOMAIN VIDEO_COSTS THEN VIDEO_COSTS[kval]
  ELSE MaxOf(Range(VIDEO_COSTS))

\* AUDIO_COSTS.get(kval, max(...)) for "audio", VIDEO_COSTS.get(kval, max(...))
\* for anything else (a dict without a type included).
CostOf(typ, kval) ==
  IF typ = "audio"
    THEN IF kval \in DOMAIN AUDIO_COSTS THEN AUDIO_COSTS[kval] ELSE MaxOf(Range(AUDIO_COSTS))
    ELSE IF kval \in DOMAIN VIDEO_COSTS THEN VIDEO_COSTS[kval] ELSE MaxOf(Range(VIDEO_COSTS))

\* A count compared with the limit without looking at the stored date.
RateCount_stale(u) == daily_count[u]

\* The count compared with the limit: 0 when the stored date is not today.
RateCount(u) == IF daily_count_date[u] # today THEN 0 ELSE daily_count[u]
DailyLimitHit(u) == RateCount(u) >= DAILY_LIMIT_PER_USER
\* A cooldown check that never refuses.
CooldownHit_never(u) == FALSE

CooldownHit(u) ==
  /\ last_conversion_at[u] # NULL
  /\ now - last_conversion_at[u] < COOLDOWN_SECONDS

\* The rate-limit checks, in the order the handler makes them.
RateOutcome(u) ==
  IF DailyLimitHit(u) THEN "DailyLimitExceeded"
  ELSE IF CooldownHit(u) THEN "Cooldown"
  ELSE "pass"

\* A deduct_coins that applies its UPDATE whatever the comparison says.
deduct_coins_unchecked(c, u, seen, amount) == [c EXCEPT ![u] = @ - amount]

\* deduct_coins: "current < amount" on the balance read (seen), then the UPDATE
\* "coins = coins - ?" on the stored balance.
deduct_ok(seen, amount) == ~(seen < amount)
deduct_coins(c, u, seen, amount) ==
  IF deduct_ok(seen, amount) THEN [c EXCEPT ![u] = @ - amount] ELSE c

\* bump_user_daily_count: the date read decides between "daily_count = 1" and
\* "daily_count = daily_count + 1".
bump_count(cnt, u, date_str) ==
  [cnt EXCEPT ![u] = IF date_str # today THEN 1 ELSE @ + 1]

\* increment_counter / decrement_counter: music_count for "audio", else video_count.
inc(cnt, u) == [cnt EXCEPT ![u] = @ + 1]
dec(cnt, u) == [cnt EXCEPT ![u] = IF @ > 0 THEN @ - 1 ELSE 0]

\* log_conversion: the row; status and refunded take the column defaults.
NewRow(u, typ, kval, cost) ==
  [user_id |-> u, type |-> typ, quality |-> kval, cost |-> cost,
   status |-> "done", refunded |-> FALSE]

\* asyncio.Queue.put on a FIFO queue.
put_front(q, item) == <<item>> \o q
put(q, item) == Append(q, item)

\* enqueue_user_conversion
\* An enqueue that starts a worker whatever the registry holds.
TaskNeeded_always(u) == TRUE

TaskNeeded(u) == user_queue_tasks[u] = "absent" \/ user_queue_tasks[u] = "done"
Enqueue(u, payload) ==
  /\ user_queues' = [user_queues EXCEPT ![u] = put(@, payload)]
  /\ queue_present' = [queue_present EXCEPT ![u] = TRUE]
  /\ user_queue_tasks' = [user_queue_tasks EXCEPT ![u] = "pending"]
  /\ wpc' = [wpc EXCEPT ![u] = IF TaskNeeded(u) THEN "loop" ELSE @]

\* The handler's writes after a debit: bump_user_daily_count,
\* set_user_last_conversion, increment_counter, log_conversion and
\* state["conversion_id"] = conv_id.
Commit(u, d, kval, cost, date_str) ==
  /\ daily_count' = bump_count(daily_count, u, date_str)
  /\ daily_count_date' = [daily_count_date EXCEPT ![u] = today]
  /\ last_conversion_at' = [last_conversion_at EXCEPT ![u] = now]
  /\ music_count' = IF dicts[d].type = "audio" THEN inc(music_count, u) ELSE music_count
  /\ video_count' = IF dicts[d].type = "audio" THEN video_count ELSE inc(video_count, u)
  /\ conversions' = Append(conversions, NewRow(u, dicts[d].type, kval, cost))

\* callback_router, data "audioq:<kval>" / "videoq:<kval>", run without another
\* handler in between.  sent: whether the "(Queued)" status message could be
\* sent; when it raises the handler ends there, before the enqueue.  quota
\* bounds the number of records.
admission(u, kval, sent, quota) ==
  /\ HasState(u)
  /\ LET d == StateOf(u)
         cost == CostOf(dicts[d].type, kval)
         priced == [dicts EXCEPT ![d].cost = cost]
         rt == RateOutcome(u)
         ok == deduct_ok(coins[u], cost)
         jid == Len(conversions) + 1
     IN IF rt # "pass" \/ ~ok
        THEN /\ sent
             /\ coins' = IF rt = "pass" THEN deduct_coins(coins, u, coins[u], cost) ELSE coins
             /\ user_state' = [user_state EXCEPT ![u] = 0]
             /\ dicts' = Collect(priced, user_state', user_queues, cur, finalizers, hloc)
             /\ event' = IF rt # "pass" THEN Ev("admit", u, rt, 0, rt)
                         ELSE Ev("admit", u, "InsufficientFunds", 0, "InsufficientFunds")
             /\ UNCHANGED <<music_count, video_count, rate, conversions, user_queues,
                            queue_present, user_queue_tasks, wpc, jobs, faults>>
        ELSE /\ Len(conversions) < quota
             /\ sent \/ faults < MaxFaults
             /\ coins' = deduct_coins(coins, u, coins[u], cost)
             /\ Commit(u, d, kval, cost, daily_count_date[u])
             /\ user_state' = [user_state EXCEPT ![u] = d]
             /\ dicts' = [priced EXCEPT ![d].conversion_id = jid]
             /\ IF sent
                THEN /\ Enqueue(u, [d |-> d, jid |-> jid])
                     /\ jobs' = Append(jobs, NewJob("queued"))
                     /\ faults' = faults
                     /\ event' = Ev("admit", u, "ok", jid, "queued")
                ELSE /\ jobs' = Append(jobs, NewJob("aborted"))
                     /\ faults' = faults + 1
                     /\ event' = Ev("admit", u, "aborted", jid, "none")
                     /\ UNCHANGED <<user_queues, queue_present, user_queue_tasks, wpc>>
  /\ UNCHANGED <<now, GLOBAL_CONCURRENCY, reporter, scheduler, registered, last_daily_date, cur, sem_value,
                 finalizers, handlers, credited, credit_ops>>

callback_quality(u, kval, sent) == admission(u, kval, sent, MaxJobs)

\* ------------------------------------ the same handler, await by await
\* Each call of callback_router is a coroutine of its own: h names one call, hpc
\* its position and hloc its local variables.  A step runs from one await on the
\* store to the next.  set_user_last_conversion, increment_counter and
\* log_conversion are single statements that read nothing, and the enqueue does
\* not suspend, so they are one step (HFinish).

\* Lines 366-422: the dict is priced, the rate window is read and checked.
HBegin(h, u, kval) ==
  /\ hpc[h] = "idle"
  /\ HasState(u)
  /\ LET d == StateOf(u)
         cost == CostOf(dicts[d].type, kval)
         priced == [dicts EXCEPT ![d].cost = cost]
         rt == RateOutcome(u)
     IN IF rt # "pass"
        THEN /\ hpc' = [hpc EXCEPT ![h] = "done"]
             /\ hloc' = [hloc EXCEPT ![h] = [NoLocals EXCEPT !.owner = u, !.res = rt]]
             /\ user_state' = [user_state EXCEPT ![u] = 0]
             /\ dicts' = Collect(priced, user_state', user_queues, cur, finalizers, hloc')
             /\ event' = Ev("admit", u, rt, 0, rt)
        ELSE /\ hpc' = [hpc EXCEPT ![h] = "select"]
             /\ hloc' = [hloc EXCEPT ![h] = [owner |-> u, d |-> d, kval |-> kval,
                                             cost |-> cost, seen |-> 0,
                                             res |-> "none"]]
             /\ user_state' = [user_state EXCEPT ![u] = d]
             /\ dicts' = priced
             /\ event' = NoEvent
  /\ UNCHANGED <<now, GLOBAL_CONCURRENCY, reporter, scheduler, ledger, tasks, finalizers, jobs, credited,
                 credit_ops, faults>>

HEnd(h, res) == [NoLocals EXCEPT !.owner = hloc[h].owner, !.res = res]

\* deduct_coins, "SELECT coins FROM users": the balance read is kept in "current".
HDeductSelect(h) ==
  /\ hpc[h] = "select"
  /\ hpc' = [hpc EXCEPT ![h] = "update"]
  /\ hloc' = [hloc EXCEPT ![h].seen = coins[hloc[h].owner]]
  /\ event' = NoEvent
  /\ UNCHANGED <<now, GLOBAL_CONCURRENCY, reporter, scheduler, ledger, session, tasks, finalizers, jobs,
                 credited, credit_ops, faults>>

\* deduct_coins, the comparison and the UPDATE; on False the handler answers
\* "Insufficient coins" and pops the session.
HDeductUpdate(h) ==
  /\ hpc[h] = "update"
  /\ LET u == hloc[h].owner
     IN /\ coins' = deduct_coins(coins, u, hloc[h].seen, hloc[h].cost)
        /\ IF deduct_ok(hloc[h].seen, hloc[h].cost)
           THEN /\ hpc' = [hpc EXCEPT ![h] = "bump"]
                /\ hloc' = hloc
                /\ UNCHANGED session
                /\ event' = NoEvent
           ELSE /\ hpc' = [hpc EXCEPT ![h] = "done"]
                /\ hloc' = [hloc EXCEPT ![h] = HEnd(h, "InsufficientFunds")]
                /\ user_state' = [user_state EXCEPT ![u] = 0]
                /\ dicts' = Collect(dicts, user_state', user_queues, cur, finalizers, hloc')
                /\ event' = Ev("admit", u, "InsufficientFunds", 0, "InsufficientFunds")
  /\ UNCHANGED <<now, GLOBAL_CONCURRENCY, reporter, scheduler, music_count, video_count, registered,
                 last_daily_date, rate, conversions, tasks, finalizers, jobs, credited,
                 credit_ops, faults>>

\* bump_user_daily_count, "SELECT daily_count, daily_count_date".
HBumpSelect(h) ==
  /\ hpc[h] = "bump"
  /\ hpc' = [hpc EXCEPT ![h] = "finish"]
  /\ hloc' = [hloc EXCEPT ![h].seen = daily_count_date[hloc[h].owner]]
  /\ event' = NoEvent
  /\ UNCHANGED <<now, GLOBAL_CONCURRENCY, reporter, scheduler, ledger, session, tasks, finalizers, jobs,
                 credited, credit_ops, faults>>

\* The UPDATE of bump_user_daily_count and lines 431-442.
HFinish(h) ==
  /\ hpc[h] = "finish"
  /\ LET u == hloc[h].owner
         d == hloc[h].d
         jid == Len(conversions) + 1
     IN /\ Commit(u, d, hloc[h].kval, hloc[h].cost, hloc[h].seen)
        /\ hpc' = [hpc EXCEPT ![h] = "done"]
        /\ hloc' = [hloc EXCEPT ![h] = HEnd(h, "ok")]
        /\ user_state' = [user_state EXCEPT ![u] = d]
        /\ dicts' = [dicts EXCEPT ![d].conversion_id = jid]
        /\ Enqueue(u, [d |-> d, jid |-> jid])
        /\ jobs' = Append(jobs, NewJob("queued"))
        /\ event' = Ev("admit", u, "ok", jid, "queued")
  /\ UNCHANGED <<now, GLOBAL_CONCURRENCY, reporter, scheduler, coins, registered, last_daily_date, cur,
                 sem_value, finalizers, credited, credit_ops, faults>>

\* ------------------------------------------------------------------ worker
\* A semaphore whose locked() never answers True.
locked_never(value, pcs) == FALSE

\* asyncio.Semaphore.locked(): no free unit, or a task already waits for one.
locked(value, pcs) == value = 0 \/ \E u \in Owners : pcs[u] = "waitgate"

\* A worker that leaves the job's stage as it was.
SetStage_skip(js, jid, stage) == js

SetStage(js, jid, stage) == [js EXCEPT ![jid].stage = stage]

\* A get() that leaves the item at the head of the queue.
get_keep(q) == q

\* asyncio.Queue.get() on a non-empty queue removes the head (popleft).
get_rest(q) == Tail(q)

\* user_queue_worker, "while not q.empty(): job = await q.get()" and, on an empty
\* queue, the two pops that end the task.  Neither q.get() on a non-empty queue nor
\* acquire() on an unlocked semaphore suspends, so taking the job and a free unit
\* is one step; on a locked semaphore the worker waits holding the job.
WorkerLoop(u) ==
  /\ wpc[u] = "loop"
  /\ IF user_queues[u] = <<>>
     THEN /\ user_queue_tasks' = [user_queue_tasks EXCEPT ![u] = "absent"]
          /\ queue_present' = [queue_present EXCEPT ![u] = FALSE]
          /\ wpc' = [wpc EXCEPT ![u] = "none"]
          /\ UNCHANGED <<user_queues, cur, sem_value, jobs>>
     ELSE /\ user_queues' = [user_queues EXCEPT ![u] = get_rest(@)]
          /\ cur' = [cur EXCEPT ![u] = [d |-> Head(user_queues[u]).d,
                                        jid |-> Head(user_queues[u]).jid,
                                        typ |-> "none"]]
          /\ jobs' = SetStage(jobs, Head(user_queues[u]).jid, "taken")
          /\ sem_value' = IF locked(sem_value, wpc) THEN sem_value ELSE sem_value - 1
          /\ wpc' = [wpc EXCEPT ![u] = IF locked(sem_value, wpc) THEN "waitgate"
                                       ELSE "starting"]
          /\ UNCHANGED <<user_queue_tasks, queue_present>>
  /\ event' = NoEvent
  /\ UNCHANGED <<now, GLOBAL_CONCURRENCY, reporter, scheduler, ledger, session, finalizers, handlers,
                 credited, credit_ops, faults>>

\* "async with global_semaphore", for a worker that found it locked: release()
\* wakes a waiter, which takes the unit.
WorkerAcquire(u) ==
  /\ wpc[u] = "waitgate"
  /\ sem_value > 0
  /\ sem_value' = sem_value - 1
  /\ wpc' = [wpc EXCEPT ![u] = "starting"]
  /\ event' = NoEvent
  /\ UNCHANGED <<now, GLOBAL_CONCURRENCY, reporter, scheduler, ledger, session, user_queues, queue_present,
                 user_queue_tasks, cur, finalizers, handlers, jobs, credited,
                 credit_ops, faults>>

\* A gate that keeps the unit when the block is left.
release_none(value) == value

\* asyncio.Semaphore.release(), which __aexit__ of "async with" calls however
\* the block is left.
release(value) == value + 1

\* An exception leaving user_queue_worker: "async with" releases the unit, the
\* task is done, and neither user_queue_tasks nor user_queues is popped.
WorkerDies(u) ==
  /\ sem_value' = release(sem_value)
  /\ user_queue_tasks' = [user_queue_tasks EXCEPT ![u] = "done"]
  /\ wpc' = [wpc EXCEPT ![u] = "none"]
  /\ cur' = [cur EXCEPT ![u] = NoJob]

\* state["chat_id"], state["title"] and state["type"] of
\* blocking_download_and_process: present in a dict start_search_flow made and a
\* "type:" callback completed.
HasKeys(st) == st.session /\ st.type # "none"

\* The executor thread enters blocking_download_and_process and reads the dict;
\* a missing key raises KeyError, which reaches the worker.
StartProduction(u) ==
  /\ wpc[u] = "starting"
  /\ IF HasKeys(dicts[cur[u].d])
     THEN /\ wpc' = [wpc EXCEPT ![u] = "producing"]
          /\ cur' = [cur EXCEPT ![u].typ = dicts[cur[u].d].type]
          /\ dicts' = dicts
          /\ jobs' = jobs
          /\ event' = NoEvent
          /\ UNCHANGED <<sem_value, user_queue_tasks>>
     ELSE /\ WorkerDies(u)
          /\ dicts' = Collect(dicts, user_state, user_queues, cur', finalizers, hloc)
          /\ jobs' = SetStage(jobs, cur[u].jid, "crashed")
          /\ event' = Ev("worker_died", u, "KeyError", cur[u].jid, "none")
  /\ UNCHANGED <<now, GLOBAL_CONCURRENCY, reporter, scheduler, ledger, user_state, user_queues,
                 queue_present, finalizers, handlers, credited, credit_ops, faults>>

\* The thread's last two lines: asyncio.get_event_loop() and loop.create_task().
\* Called on the executor thread, get_event_loop() raises RuntimeError under the
\* default event-loop policy (the thread has no loop), and the exception reaches
\* the worker through run_in_executor; where it returns the loop, the finalizer
\* task is created.  Both outcomes are modelled.
create_finalizer(fs, f, loop) == IF loop THEN fs \cup {f} ELSE fs

\* yt-dlp ends (prodOK: extract_info returned and the filepath is set) and the
\* worker resumes: the unit is released and the loop goes round, or the task dies.
ProductionEnds(u, prodOK, loop) ==
  /\ wpc[u] = "producing"
  /\ finalizers' = create_finalizer(finalizers,
        [owner |-> u, d |-> cur[u].d, jid |-> cur[u].jid, prodOK |-> prodOK], loop)
  /\ jobs' = [jobs EXCEPT ![cur[u].jid].stage = IF prodOK THEN "ok" ELSE "error",
                          ![cur[u].jid].fin = IF loop THEN "pending" ELSE "none"]
  /\ IF loop
     THEN /\ sem_value' = release(sem_value)
          /\ wpc' = [wpc EXCEPT ![u] = "loop"]
          /\ cur' = [cur EXCEPT ![u] = NoJob]
          /\ event' = NoEvent
          /\ UNCHANGED user_queue_tasks
     ELSE /\ WorkerDies(u)
          /\ event' = Ev("worker_died", u, "RuntimeError", cur[u].jid, "none")
  /\ dicts' = Collect(dicts, user_state, user_queues, cur', finalizers', hloc)
  /\ UNCHANGED <<now, GLOBAL_CONCURRENCY, reporter, scheduler, ledger, user_state, user_queues,
                 queue_present, handlers, credited, credit_ops, faults>>

\* --------------------------------------------------------------- finalizer
\* The store and transport calls of each branch of async_finalize_and_update, in
\* the order the code makes them; "fault" names the first one that raises.
\* A refund branch that tells the owner before it marks the row.
RefundSteps_notice_first ==
  <<"refund_coins", "decrement_counter", "send_message", "mark_conversion_refunded">>

RefundSteps == <<"refund_coins", "decrement_counter", "mark_conversion_refunded",
                 "send_message">>
FailSteps == <<"mark_conversion_failed", "refund_coins", "decrement_counter",
               "edit_message_text">>
StepNames == Range(RefundSteps) \cup Range(FailSteps)
Faults == {"none"} \cup StepNames
Pos(steps, x) == CHOOSE i \in 1..Len(steps) : steps[i] = x
\* Whether step x of the branch ran to its end before anything raised.
Done(steps, x, fault) ==
  \/ fault = "none"
  \/ fault \notin Range(steps)
  \/ Pos(steps, x) < Pos(steps, fault)

refund_coins(c, u, amount) == add_coins(c, u, amount)
mark_conversion(convs, id, status, refunded) ==
  [i \in 1..Len(convs) |->
     IF i = id THEN [convs[i] EXCEPT !.status = status, !.refunded = refunded]
     ELSE convs[i]]
mark_conversion_refunded(convs, id) == mark_conversion(convs, id, "refunded", TRUE)
mark_conversion_failed(convs, id) ==
  mark_conversion(convs, id, "failed", IF id \in 1..Len(convs) THEN convs[id].refunded ELSE FALSE)

\* decrement_counter(user_id, typ) on both columns.
DecMusic(u, typ) == IF typ = "audio" THEN dec(music_count, u) ELSE music_count
DecVideo(u, typ) == IF typ = "audio" THEN video_count ELSE dec(video_count, u)

\* The delivery branch after send_document raised: lines 589-602.
RefundBranch(u, typ, cost, conv_id, fault) ==
  /\ coins' = IF Done(RefundSteps, "refund_coins", fault)
              THEN refund_coins(coins, u, cost) ELSE coins
  /\ music_count' = IF Done(RefundSteps, "decrement_counter", fault)
                    THEN DecMusic(u, typ) ELSE music_count
  /\ video_count' = IF Done(RefundSteps, "decrement_counter", fault)
                    THEN DecVideo(u, typ) ELSE video_count
  /\ conversions' = IF Done(RefundSteps, "mark_conversion_refunded", fault)
                    THEN mark_conversion_refunded(conversions, conv_id) ELSE conversions

\* The branch without an artifact: lines 607-619.  mark_conversion_failed is
\* outside the try, so when it raises nothing else of the branch runs; the refund
\* and the decrement share a try whose except passes.
FailBranch(u, typ, cost, conv_id, fault) ==
  /\ conversions' = IF Done(FailSteps, "mark_conversion_failed", fault)
                    THEN mark_conversion_failed(conversions, conv_id) ELSE conversions
  /\ coins' = IF Done(FailSteps, "refund_coins", fault)
              THEN refund_coins(coins, u, cost) ELSE coins
  /\ music_count' = IF Done(FailSteps, "decrement_counter", fault)
                    THEN DecMusic(u, typ) ELSE music_count
  /\ video_count' = IF Done(FailSteps, "decrement_counter", fault)
                    THEN DecVideo(u, typ) ELSE video_count

RefundNotice(fault) == IF fault = "none" THEN "refunded" ELSE "refund_failed"
FailNotice(fault) ==
  IF fault = "mark_conversion_failed" THEN "none"
  ELSE IF fault = "edit_message_text" THEN "failed_message"
  ELSE "failed_edit"

\* The counter of a job's kind, as the users table holds it.
KindCount(mc, vc, u, typ) == IF typ = "audio" THEN mc[u] ELSE vc[u]

\* async_finalize_and_update.  The task reads typ, cost and conversion_id from
\* the dict when it starts.  progress["done"] is already True when the task is
\* created, so the "while not progress['done']" loop body never runs.
\*   artifact:  Path(filepath).exists(): the TemporaryDirectory object of the
\*              thread is dropped when the thread function returns, and whether
\*              the directory is still there depends on when it is collected;
\*   sent_ok:   send_document returned;
\*   fault:     the first store/transport call of the branch that raises.
Finalize(f, artifact, sent_ok, fault) ==
  /\ f \in finalizers
  /\ artifact => f.prodOK
  /\ sent_ok => artifact
  /\ fault # "none" => faults < MaxFaults
  /\ fault \in (IF artifact /\ sent_ok THEN {"none"}
                ELSE IF artifact THEN {"none"} \cup Range(RefundSteps)
                ELSE {"none"} \cup Range(FailSteps))
  /\ LET u == f.owner
         typ == dicts[f.d].type
         cost == dicts[f.d].cost
         conv_id == dicts[f.d].conversion_id
         path == IF artifact /\ sent_ok THEN "delivered"
                 ELSE IF artifact THEN "refund" ELSE "fail"
         notice == IF path = "delivered" THEN "file"
                   ELSE IF path = "refund" THEN RefundNotice(fault)
                   ELSE FailNotice(fault)
         kind == conversions[f.jid].type
     IN /\ IF path = "delivered"
           THEN UNCHANGED <<coins, music_count, video_count, conversions>>
           ELSE IF path = "refund"
           THEN RefundBranch(u, typ, cost, conv_id, fault)
           ELSE FailBranch(u, typ, cost, conv_id, fault)
        /\ jobs' = [jobs EXCEPT ![f.jid].fin = path,
                                ![f.jid].credit = coins'[u] - coins[u],
                                ![f.jid].dec = KindCount(music_count, video_count, u, kind)
                                               - KindCount(music_count', video_count', u, kind),
                                ![f.jid].notice = notice]
        /\ event' = [Ev("finalize", u,
                        IF path = "delivered" THEN "delivered"
                        ELSE IF path = "refund" THEN "delivery_failed"
                        ELSE IF f.prodOK THEN "artifact_missing" ELSE "production_failed",
                        f.jid, notice) EXCEPT !.fault = fault]
        /\ user_state' = [user_state EXCEPT ![u] = 0]
  /\ finalizers' = finalizers \ {f}
  /\ faults' = IF fault = "none" THEN faults ELSE faults + 1
  /\ dicts' = Collect(dicts, user_state', user_queues, cur, finalizers', hloc)
  /\ UNCHANGED <<now, GLOBAL_CONCURRENCY, reporter, scheduler, registered, last_daily_date, rate, tasks,
                 handlers, credited, credit_ops>>

\* ----------------------------------------------------- the reporting loop
\* The values progress["percent"] takes, in hundredths of a percent, and the
\* values of progress["status_text"] the hook writes.
Percents == {0, 4, 2004, 9000}
StatusTexts == {"Starting...", "downloading", "Post-processing..."}

\* progress_bar(p): int(percent // 20) filled squares.
progress_bar(percent) == percent \div 2000

\* The text of one iteration: title and duration do not change during the loop,
\* the bar shows p // 20 and the percentage is written with one decimal.
Render(percent, status_text) ==
  [bar |-> progress_bar(percent), pct |-> (percent + 5) \div 10, status |-> status_text]

\* A loop that pushes on every iteration.
changed_always(text, last) == TRUE

\* "if text != last_text"
changed(text, last) == text # last

\* One iteration of "while not progress['done']": the text is rendered from
\* what the hook wrote, pushed when it differs from last_text (an edit that
\* raises is passed over) and kept as last_text; then the loop sleeps.
ReportPoll(percent, status_text) ==
  /\ report_pc = "loop"
  /\ polls < MaxPolls
  /\ polls' = polls + 1
  /\ LET text == Render(percent, status_text)
     IN IF changed(text, last_text)
        THEN /\ pushes' = Append(pushes, text)
             /\ last_text' = text
        ELSE UNCHANGED <<pushes, last_text>>
  /\ UNCHANGED <<report_pc, now, GLOBAL_CONCURRENCY, scheduler, ledger, session, tasks,
                 finalizers, handlers, jobs, credited, credit_ops, faults, event>>

\* progress["done"] is read True: the loop ends and the text of the outcome
\* ("(Finished)" with an artifact, "Error during conversion." without) is pushed.
ReportDone(artifact) ==
  /\ report_pc = "loop"
  /\ report_pc' = "ended"
  /\ pushes' = Append(pushes, [bar |-> 5, pct |-> NULL,
                                status |-> IF artifact THEN "(Finished)" ELSE "Error"])
  /\ UNCHANGED <<last_text, polls, now, GLOBAL_CONCURRENCY, scheduler, ledger, session,
                 tasks, finalizers, handlers, jobs, credited, credit_ops, faults, event>>

\* ---------------------------------------------------------- specifications
\* Spec: every owner, from open dialogues, on the plain path (one kind, one
\* quality, no store or transport call raising inside a handler or a finalizer);
\* the executor thread and the transport's answer to send_document are free.
Next ==
  \/ Tick
  \/ \E u \in Owners, k \in Kvals : callback_quality(u, k, TRUE)
  \/ \E u \in Owners : WorkerLoop(u)
  \/ \E u \in Owners : WorkerAcquire(u)
  \/ \E u \in Owners : StartProduction(u)
  \/ \E u \in Owners, prodOK \in BOOLEAN, loop \in BOOLEAN : ProductionEnds(u, prodOK, loop)
  \/ \E f \in finalizers, artifact \in BOOLEAN, sent_ok \in BOOLEAN :
        Finalize(f, artifact, sent_ok, "none")

Spec == InitDialogues /\ [][Next]_vars

\* OwnerSpec: one owner, from no dialogue, with every input of the dialogue and
\* every fault.
Solo == {1}

NextOwner ==
  \/ Tick
  \/ \E u \in Solo : start_search_flow(u)
  \/ \E u \in Solo, t \in Types : callback_type(u, t)
  \/ \E u \in Solo, k \in Kvals, sent \in BOOLEAN : callback_quality(u, k, sent)
  \/ \E u \in Solo : WorkerLoop(u)
  \/ \E u \in Solo : StartProduction(u)
  \/ \E u \in Solo, prodOK \in BOOLEAN, loop \in BOOLEAN : ProductionEnds(u, prodOK, loop)
  \/ \E f \in finalizers, artifact \in BOOLEAN, sent_ok \in BOOLEAN, fault \in Faults :
        Finalize(f, artifact, sent_ok, fault)

OwnerSpec == Init /\ [][NextOwner]_vars

\* RaceSpec: NumHandlers calls of callback_router for one owner, each pressing a
\* quality button of the open dialogue, interleaved at their awaits.  The
\* balance pays one audio job, two or three.
RaceFunds == {AUDIO_COSTS[128], 2 * AUDIO_COSTS[128], 3 * AUDIO_COSTS[128]}

InitRace == InitBase /\ OpenDialogues(Solo) /\ \E c \in RaceFunds : Funded(c)

NextRace ==
  \/ Tick
  \/ \E h \in Handlers, u \in Solo, k \in Kvals : HBegin(h, u, k)
  \/ \E h \in Handlers : HDeductSelect(h)
  \/ \E h \in Handlers : HDeductUpdate(h)
  \/ \E h \in Handlers : HBumpSelect(h)
  \/ \E h \in Handlers : HFinish(h)

RaceSpec == InitRace /\ [][NextRace]_vars

\* LedgerSpec: accounts that start empty, and the operations that change a
\* balance outside a job (registration bonus, daily reward, /addcoins) next to
\* the debit of an admission.
InitLedger == InitBase /\ OpenDialogues(Owners) /\ Funded(0)

NextLedger ==
  \/ Tick
  \/ \E u \in Owners : Register(u)
  \/ \E u \in Owners : give_daily(u)
  \/ \E u \in Owners, a \in AdminAmounts : admin_addcoins_cmd(u, a)
  \/ \E u \in Owners, k \in Kvals : callback_quality(u, k, TRUE)

LedgerSpec == InitLedger /\ [][NextLedger]_vars

\* DailySpec: NumRuns tasks of give_daily over more than one calendar day,
\* interleaved at their awaits, with the store calls free to raise.
InitDaily == InitBase /\ NoDialogue /\ Funded(0)

NextDaily ==
  \/ Advance(MaxWindowTime)
  \/ \E r \in Runs : DailyBegin(r)
  \/ \E r \in Runs, ok \in BOOLEAN : DailyRow(r, ok)
  \/ \E r \in Runs, ok \in BOOLEAN : DailySet(r, ok)

DailySpec == InitDaily /\ [][NextDaily]_vars

\* CostSpec: one owner, one admission, with every kind and every quality button
\* (those of both keyboards and a value neither table holds).
Tiers == DOMAIN AUDIO_COSTS \cup DOMAIN VIDEO_COSTS \cup {64}

InitCost == InitBase /\ NoDialogue /\ Funded(StartCoins)

NextCost ==
  \/ Tick
  \/ \E u \in Solo : start_search_flow(u)
  \/ \E u \in Solo, t \in Types : callback_type(u, t)
  \/ \E u \in Solo, k \in Tiers : admission(u, k, TRUE, MaxCostJobs)

CostSpec == InitCost /\ [][NextCost]_vars

\* ReportSpec: the reporting loop of one job applied to every sequence of
\* progress values of up to MaxPolls iterations.
InitReport == InitBase /\ NoDialogue /\ Funded(StartCoins)

NextReport ==
  \/ \E percent \in Percents, s \in StatusTexts : ReportPoll(percent, s)
  \/ \E artifact \in BOOLEAN : ReportDone(artifact)

ReportSpec == InitReport /\ [][NextReport]_vars

\* WindowSpec: one owner's admissions over more than one calendar day; the jobs
\* stay queued.
InitWindow == InitBase /\ OpenDialogues(Solo) /\ Funded(StartCoins)

NextWindow ==
  \/ Advance(MaxWindowTime)
  \/ \E u \in Solo : start_search_flow(u)
  \/ \E u \in Solo : callback_type(u, "audio")
  \/ \E u \in Solo, k \in Kvals : admission(u, k, TRUE, MaxWindowJobs)

WindowSpec == InitWindow /\ [][NextWindow]_vars

\* FairSpec: Spec under the scheduling of the event loop and the executor: a
\* worker or finalizer task that is ready runs, a waiter of the semaphore is
\* woken when a unit is released, and the thread function comes to its end.
\* Requests of the owners and the clock are under no obligation.
Scheduling ==
  /\ \A u \in Owners : WF_vars(WorkerLoop(u))
  /\ \A u \in Owners : SF_vars(WorkerAcquire(u))
  /\ \A u \in Owners : WF_vars(StartProduction(u))
  /\ \A u \in Owners :
       WF_vars(\E prodOK \in BOOLEAN, loop \in BOOLEAN : ProductionEnds(u, prodOK, loop))
  /\ WF_vars(\E f \in finalizers, artifact \in BOOLEAN, sent_ok \in BOOLEAN :
               Finalize(f, artifact, sent_ok, "none"))

FairSpec == InitDialogues /\ [][Next]_vars /\ Scheduling

\* ------------------------------------------------------- the job lifecycle
\* The status of the specification (QUEUED, RUNNING, DELIVERED, REFUNDED,
\* FAILED) as far as the program holds it: the conversions row holds "refunded"
\* and "failed" (and 'done', the column default, from the INSERT on); a job is
\* RUNNING from the dequeue on, DELIVERED once send_document returned.  A row
\* whose handler ended before the enqueue has none of them.
Jobs == DOMAIN conversions

JobStatus(j) ==
  IF conversions[j].status = "refunded" THEN "REFUNDED"
  ELSE IF conversions[j].status = "failed" THEN "FAILED"
  ELSE IF jobs[j].fin = "delivered" THEN "DELIVERED"
  ELSE IF jobs[j].stage = "aborted" THEN "NONE"
  ELSE IF jobs[j].stage = "queued" THEN "QUEUED"
  ELSE "RUNNING"

JobsOf(u) == {j \in Jobs : conversions[j].user_id = u}
Running == {j \in Jobs : JobStatus(j) = "RUNNING"}

RECURSIVE SumCosts(_)
SumCosts(S) ==
  IF S = {} THEN 0
  ELSE LET j == CHOOSE x \in S : TRUE IN conversions[j].cost + SumCosts(S \ {j})

\* The workers that hold a gate unit: inside "async with global_semaphore".
InProduction == {u \in Owners : wpc[u] \in {"starting", "producing"}}

Rejections == {"DailyLimitExceeded", "Cooldown", "InsufficientFunds"}

\* ------------------------------------------------------------------ claims

\* C1: for every account, in every reachable state, the balance equals the
\* initial balance (with what the account was credited outside any job) minus the
\* sum of the costs of its jobs that are QUEUED, RUNNING or DELIVERED.
C1_BalanceIsInitialMinusCharged ==
  \A u \in Owners :
    faults = 0
      => coins[u] = credited[u]
                    - SumCosts({j \in JobsOf(u) :
                                  JobStatus(j) \in {"QUEUED", "RUNNING", "DELIVERED"}})

\* C2: no two jobs of the same owner are RUNNING at the same instant, a job
\* being RUNNING from its dequeue until it is DELIVERED, REFUNDED or FAILED.
C2_OneRunningPerOwner ==
  \A u \in Owners : Cardinality(JobsOf(u) \cap Running) <= 1

\* C3, as stated: at every instant the number of RUNNING jobs, over all owners,
\* is at most GLOBAL_CONCURRENCY.
C3_RunningWithinCapacity == Cardinality(Running) <= GLOBAL_CONCURRENCY

\* C3, amended: at every instant the number of jobs in production, that is of
\* dequeued jobs whose worker holds a gate unit, is at most GLOBAL_CONCURRENCY.
C3_ProductionsWithinCapacity == Cardinality(InProduction) <= GLOBAL_CONCURRENCY

\* The gate is saturated by one owner's production while another owner's
\* dequeued job waits for a unit.
C3_Witness ==
  \E u, v \in Owners : wpc[u] = "producing" /\ wpc[v] = "waitgate"

\* C4: when the admission requests of one owner are interleaved and the balance
\* is exactly one job's cost, exactly one of them succeeds and debits, the others
\* are rejected, and the balance ends at 0, never below.
C4_ExactlyOneAdmitted ==
  \A u \in Solo :
    (credited[u] = AUDIO_COSTS[128] /\ \A h \in Handlers : hpc[h] = "done")
      => /\ Cardinality({h \in Handlers : hloc[h].res = "ok"}) = 1
         /\ coins[u] = 0

\* C5: in every reachable state every account's balance is at least 0, whatever
\* debit, refund, reward, registration bonus or admin adjustment was applied.
C5_BalanceNeverNegative == \A u \in Owners : coins[u] >= 0

\* C6: an admission rejected with DailyLimitExceeded, Cooldown or
\* InsufficientFunds leaves the balance, the lifetime counters, the rate-window
\* count and date and the last-job timestamp as they were, creates no job record
\* and enqueues nothing.
C6_RejectionChangesNothing ==
  [][(event'.op = "admit" /\ event'.res \in Rejections)
       => UNCHANGED <<coins, music_count, video_count, daily_count, daily_count_date,
                      last_conversion_at, conversions, user_queues, jobs>>]_vars

\* An owner who already paid for a job is refused the next one for lack of coins.
C6_Witness ==
  /\ event.op = "admit"
  /\ event.res = "InsufficientFunds"
  /\ JobsOf(event.owner) # {}

\* C7: a job whose production failed is FAILED once its finalization is over,
\* the balance is back at its value before the admission (the finalizer credited
\* the job's cost) and the counter of the job's kind is 1 lower; no store or
\* transport call raised.
C7_ProductionFailureRestores ==
  \A j \in Jobs :
    (faults = 0 /\ jobs[j].stage = "error" /\ jobs[j].fin # "pending")
      => /\ JobStatus(j) = "FAILED"
         /\ jobs[j].credit = conversions[j].cost
         /\ jobs[j].dec = 1

\* C8: a job that was produced and whose delivery failed is REFUNDED, the
\* balance is back at its value before the admission and the owner was told of
\* the refund; no store or transport call of the refund raised.
C8_DeliveryFailureRefunds ==
  \A j \in Jobs :
    (faults = 0 /\ jobs[j].fin = "refund")
      => /\ JobStatus(j) = "REFUNDED"
         /\ jobs[j].credit = conversions[j].cost
         /\ jobs[j].notice = "refunded"

\* C9: a job whose artifact the transport took is DELIVERED and never refunded:
\* its record is not marked, nothing was credited for it and the counter of its
\* kind was not lowered.
C9_DeliveredNeverRefunded ==
  \A j \in Jobs :
    (faults = 0 /\ jobs[j].fin = "delivered")
      => /\ JobStatus(j) = "DELIVERED"
         /\ ~conversions[j].refunded
         /\ jobs[j].credit = 0
         /\ jobs[j].dec = 0

\* C10: no enqueued job is left behind by a worker that ends: whenever jobs of
\* an owner wait in the queue, a live worker of that owner is there to take them.
C10_QueuedJobHasWorker ==
  \A u \in Owners : user_queues[u] # <<>> => user_queue_tasks[u] = "pending"

\* The production of job j (the call of blocking_download_and_process) has
\* begun; it has returned or raised.
ProductionOver(j) == jobs[j].stage \in {"ok", "error", "crashed"}
ProductionStarted(j) ==
  \/ ProductionOver(j)
  \/ \E u \in Owners : cur[u].jid = j /\ wpc[u] = "producing"

\* The jobs of u that were enqueued.  Where a handler runs without another in
\* between, the order of their ids is the order of their enqueues.
EnqueuedOf(u) == {j \in JobsOf(u) : jobs[j].stage # "aborted"}

\* C11: within one owner jobs are produced in submission order: if A was
\* enqueued before B, A's production is over before B's production starts.
C11_SubmissionOrder ==
  \A u \in Owners : \A a, b \in EnqueuedOf(u) :
    (a < b /\ ProductionStarted(b)) => ProductionOver(a)

\* Two jobs of one owner were both produced.
C11_Witness ==
  \E u \in Owners : \E a, b \in EnqueuedOf(u) :
    a < b /\ ProductionOver(a) /\ ProductionOver(b)

\* The owner's last successful admission is less than the cooldown back.
InCooldown(u) ==
  last_conversion_at[u] # NULL /\ now - last_conversion_at[u] < COOLDOWN_SECONDS

\* The successful admissions of u on the current calendar day.
AdmittedToday(u) == Cardinality({j \in JobsOf(u) : jobs[j].day = today})

C13_DailyLimit ==
  [][event'.op = "admit"
       => /\ AdmittedToday(event'.owner) >= DAILY_LIMIT_PER_USER
               => (event'.res = "DailyLimitExceeded" /\ coins' = coins)
          /\ (AdmittedToday(event'.owner) = 0 /\ ~InCooldown(event'.owner))
               => event'.res \notin {"DailyLimitExceeded", "Cooldown"}
          /\ (AdmittedToday(event'.owner) = 0 /\ event'.res = "ok")
               => daily_count'[event'.owner] = 1]_vars

\* After daily-limit many admissions on one day, the owner is admitted on the
\* next day and the stored count is 1.
C13_Witness ==
  /\ event.op = "admit"
  /\ event.res = "ok"
  /\ Cardinality(JobsOf(event.owner)) = DAILY_LIMIT_PER_USER + 1
  /\ AdmittedToday(event.owner) = 1
  /\ daily_count[event.owner] = 1

\* C14: a worker holds a gate unit only for a job whose execution has not ended:
\* the units held and the free units always add up to GLOBAL_CONCURRENCY, and
\* the job of a worker that holds one has neither returned nor raised, so the
\* unit taken for a job is back on every outcome before the next job is taken.
C14_GateUnitReleased ==
  /\ sem_value + Cardinality(InProduction) = GLOBAL_CONCURRENCY
  /\ \A u \in Owners : u \in InProduction => ~ProductionOver(cur[u].jid)
  /\ \A u \in Owners : u \notin InProduction /\ wpc[u] # "waitgate" => cur[u] = NoJob

\* One job ended with an exception in the worker, another returned to it, and
\* every unit is free again.
C14_Witness ==
  /\ sem_value = GLOBAL_CONCURRENCY
  /\ \E a, b \in Jobs :
       /\ ProductionOver(a) /\ jobs[a].fin = "none"
       /\ ProductionOver(b) /\ jobs[b].fin # "none"

\* The step marks job j REFUNDED.
MarkedRefunded(j) ==
  /\ j \in DOMAIN conversions
  /\ conversions[j].status # "refunded"
  /\ conversions'[j].status = "refunded"

\* C15: a job is marked REFUNDED only in a step that credited its cost to its
\* owner's balance; a finalization whose refund raised marks nothing.
C15_RefundedOnlyIfCredited ==
  [][\A j \in DOMAIN conversions :
       MarkedRefunded(j)
         => coins'[conversions[j].user_id]
              = coins[conversions[j].user_id] + conversions[j].cost]_vars

\* The finalization of job j reached refund_coins and the call raised: the
\* branch ran past its first store call (a notice was due) and nothing was
\* credited.
RefundRaised(j) ==
  /\ jobs[j].fin \in {"refund", "fail"}
  /\ jobs[j].notice # "none"
  /\ jobs[j].credit = 0

\* C16: whenever the refund attempted after a production failure or after a
\* delivery failure itself fails, the owner is told that the refund failed and
\* that the administrator has to step in.
C16_DoubleFaultSurfaced ==
  \A j \in Jobs : RefundRaised(j) => jobs[j].notice = "refund_failed"

\* Every effect of a successful admission of u happened in the step.
AllEffects(u) ==
  /\ coins'[u] < coins[u]
  /\ daily_count'[u] >= 1 /\ daily_count_date'[u] = today
  /\ last_conversion_at'[u] = now
  /\ music_count'[u] + video_count'[u] = music_count[u] + video_count[u] + 1
  /\ Len(conversions') = Len(conversions) + 1
  /\ Len(user_queues'[u]) = Len(user_queues[u]) + 1
  /\ user_queues'[u][Len(user_queues'[u])].jid = Len(conversions')

\* No effect of an admission happened in the step.
NoEffect ==
  UNCHANGED <<coins, music_count, video_count, daily_count, daily_count_date,
              last_conversion_at, conversions, user_queues>>

\* C17: when the admission handler has ended, normally or by an error after the
\* debit, either none of its effects happened or the debit, the rate-window
\* bump, the timestamp, the counter increment, the job record and the enqueue
\* all happened.
C17_AdmissionAllOrNothing ==
  [][event'.op = "admit" => (NoEffect \/ AllEffects(event'.owner))]_vars

\* Job j waits in a queue; the times it does.
QueuePlaces(qs, j) ==
  UNION {{<<u, i>> : i \in {k \in 1..Len(qs[u]) : qs[u][k].jid = j}} : u \in Owners}
InQueue(j) == QueuePlaces(user_queues, j) # {}

\* A worker has job j in hand: dequeued, the thread function not yet over.
InHand(j) == \E u \in Owners : cur[u].jid = j

\* C18: a job is never retried: it is in at most one place of one queue, once
\* off the queue it is never on a queue again, a worker takes it in hand only
\* from the queue, and once its production is over no worker has it in hand
\* again.
C18_NeverRetried ==
  [][\A j \in DOMAIN jobs :
       /\ Cardinality(QueuePlaces(user_queues', j)) <= 1
       /\ ~InQueue(j) => ~InQueue(j)'
       /\ (~InHand(j) /\ InHand(j)') => (InQueue(j) /\ ~InQueue(j)')
       /\ ProductionOver(j) => ~InHand(j)']_vars

\* A job failed in production or in delivery and was finalized; the owner's
\* worker went on to a later job and the failed one is on no queue.
C18_Witness ==
  \E j, k \in Jobs :
    /\ j < k
    /\ conversions[j].user_id = conversions[k].user_id
    /\ jobs[j].fin \in {"refund", "fail"}
    /\ ProductionOver(k)
    /\ ~InQueue(j)

\* The transport calls that carry a notice to the owner.
NoticeSteps == {"send_message", "edit_message_text"}

RewardsFor(u, d) == Cardinality({k \in DOMAIN rewarded[u] : rewarded[u][k] = d})

COSTS == [audio |-> AUDIO_COSTS, video |-> VIDEO_COSTS]
TablePrice(kind, tier) ==
  IF tier \in DOMAIN COSTS[kind] THEN COSTS[kind][tier] ELSE MaxOf(Range(COSTS[kind]))

StatusSteps ==
  {<<"QUEUED", "RUNNING">>, <<"RUNNING", "DELIVERED">>, <<"RUNNING", "REFUNDED">>,
   <<"RUNNING", "FAILED">>}

AtJob == {"waitgate", "starting", "producing"}

LiveWorker(u) == wpc[u] # "none"

\* C26: the registry holds a pending task for an owner exactly when the owner
\* has a live worker, so there is at most one; an enqueue appends the job,
\* starts a worker exactly when the owner had no live one and leaves a live one
\* where it was; it takes no gate unit and waits for no job.
C26_WorkerStartedWhenNone ==
  [][/\ \A u \in Owners : LiveWorker(u)' <=> user_queue_tasks'[u] = "pending"
     /\ (event'.op = "admit" /\ event'.res = "ok")
          => LET u == event'.owner
             IN /\ Len(user_queues'[u]) = Len(user_queues[u]) + 1
                /\ user_queues'[u][Len(user_queues'[u])].jid = event'.jid
                /\ wpc'[u] = IF LiveWorker(u) THEN wpc[u] ELSE "loop"
                /\ cur' = cur
                /\ sem_value' = sem_value]_vars

\* The owner's previous worker ended by an exception with its job; the next
\* admission started a new worker.
C26_Witness ==
  /\ event.op = "admit" /\ event.res = "ok"
  /\ wpc[event.owner] = "loop"
  /\ \E j \in JobsOf(event.owner) : ProductionOver(j) /\ jobs[j].fin = "none"

\* C27: a job at the head of its owner's queue, whose owner has no job in
\* production, can start production whenever the gate has a free unit, whatever
\* the other owners' queues, workers and finalizers are doing: the owner's
\* worker stands at the head of its loop, where its next step takes the job and
\* the unit.
C27_HeadJobCanStart ==
  \A u \in Owners :
    (user_queues[u] # <<>> /\ wpc[u] \notin AtJob /\ ~locked(sem_value, wpc))
      => wpc[u] = "loop"

\* The pushes of the loop: all but the push of the outcome.
LoopPushes == IF report_pc = "ended" THEN SubSeq(pushes, 1, Len(pushes) - 1) ELSE pushes

\* C28: the reporting loop pushes only a text that differs from the text of its
\* previous push: no two consecutive pushes of the loop carry the same text.
C28_NoRepeatedPush ==
  \A i \in 1..(Len(LoopPushes) - 1) : LoopPushes[i] # LoopPushes[i + 1]

\* The loop went round more often than it pushed, and pushed more than once.
C28_Witness ==
  /\ Len(LoopPushes) >= 2
  /\ polls > Len(LoopPushes)

\* C29: each job has a reporting loop that is active while its production is
\* in flight: a job in production has a task of async_finalize_and_update.
C29_ReporterWhileProducing ==
  \A u \in Owners :
    wpc[u] = "producing" => \E f \in finalizers : f.jid = cur[u].jid

\* C30: the temporary storage of a job is not released before the delivery
\* attempt has read the artifact: a job whose production returned with an
\* artifact is finalized by a delivery attempt, not as a job without artifact.
C30_ArtifactKeptUntilDelivery ==
  \A j \in Jobs : jobs[j].stage = "ok" => jobs[j].fin # "fail"

\* The statuses a job ends in.
Settled == {"DELIVERED", "REFUNDED", "FAILED"}

\* C31: under fair scheduling, with every production and every store and
\* transport call terminating, every admitted job is eventually dequeued and
\* eventually DELIVERED, REFUNDED or FAILED.
C31_EveryJobSettles ==
  \A j \in 1..MaxJobs :
    (j \in Jobs /\ jobs[j].stage = "queued")
      ~> (j \in Jobs /\ jobs[j].stage # "queued" /\ JobStatus(j) \in Settled)

\* user_state holds no dict for u: no title was sent since the last pop.
NoSession(u) == user_state[u] = 0

\* C32: a tier selection that arrives while the owner has no pending selection
\* session debits nothing and creates and enqueues no job.
C32_NoSessionNoAdmission ==
  [][\A u \in Owners :
       (event'.op = "admit" /\ event'.owner = u /\ NoSession(u))
         => /\ coins'[u] = coins[u]
            /\ conversions' = conversions
            /\ user_queues' = user_queues]_vars

\* The step credits coins to owner u.
CreditedTo(u) == coins'[u] > coins[u]

\* C33: a job's cost is credited back at most once and only by the
\* finalization of a job whose production or delivery failed: a step that
\* credits an owner finalizes a job of that owner that was produced, was not
\* finalized and not credited before, and does not end DELIVERED; a job that
\* was delivered has nothing credited.
C33_CreditedBackAtMostOnce ==
  [][/\ \A u \in Owners :
          CreditedTo(u)
            => /\ event'.op = "finalize" /\ event'.owner = u
               /\ conversions[event'.jid].user_id = u
               /\ jobs[event'.jid].stage \in {"ok", "error"}
               /\ jobs[event'.jid].fin = "pending"
               /\ jobs[event'.jid].credit = 0
               /\ jobs'[event'.jid].fin \in {"refund", "fail"}
               /\ event'.res # "delivered"
     /\ \A j \in DOMAIN jobs' : jobs'[j].fin = "delivered" => jobs'[j].credit = 0]_vars

\* Of two jobs of one owner, one was delivered and the other credited back.
C33_Witness ==
  \E j, k \in Jobs :
    /\ conversions[j].user_id = conversions[k].user_id
    /\ jobs[j].fin = "delivered" /\ jobs[j].credit = 0
    /\ jobs[k].fin \in {"refund", "fail"} /\ jobs[k].credit > 0

\* C34: on a delivery failure the owner is told that the refund failed only if
\* the refund was not applied: the finalization that sends that notice has left
\* the owner's balance as it was.
C34_RefundFailedOnlyIfNotCredited ==
  [][(event'.op = "finalize" /\ event'.res = "delivery_failed"
        /\ event'.notice = "refund_failed")
       => coins'[event'.owner] = coins[event'.owner]]_vars

\* A finalization on the refund protocol: the delivery or the production failed.
RefundProtocol(e) == e.op = "finalize" /\ e.res # "delivered"

\* C35: the refund protocol changes only the owner's balance, the owner's
\* lifetime counter of the job's kind and the job's status; the rate-window
\* count and date and the last-job timestamp are left as they were.
C35_RefundFrame ==
  [][RefundProtocol(event')
       => LET u == event'.owner
              j == event'.jid
              kind == conversions[j].type
          IN /\ UNCHANGED <<daily_count, daily_count_date, last_conversion_at>>
             /\ \A v \in Owners \ {u} :
                  /\ coins'[v] = coins[v]
                  /\ music_count'[v] = music_count[v]
                  /\ video_count'[v] = video_count[v]
             /\ kind = "audio" => video_count' = video_count
             /\ kind = "video" => music_count' = music_count
             /\ DOMAIN conversions' = DOMAIN conversions
             /\ \A k \in DOMAIN conversions :
                  /\ k # j => conversions'[k] = conversions[k]
                  /\ conversions'[k] = [conversions[k] EXCEPT
                                          !.status = conversions'[k].status,
                                          !.refunded = conversions'[k].refunded]]_vars

\* The jobs of u of one kind that were admitted and not refunded.
Charged(u, kind) ==
  {j \in JobsOf(u) : /\ conversions[j].type = kind
                     /\ JobStatus(j) \in {"QUEUED", "RUNNING", "DELIVERED"}}

\* C36: in every reachable state each owner's lifetime counter of a kind is at
\* least 0 and equals the number of the owner's jobs of that kind that are
\* QUEUED, RUNNING or DELIVERED.
C36_CounterIsChargedJobs ==
  \A u \in Owners : \A kind \in Types :
    /\ KindCount(music_count, video_count, u, kind) >= 0
    /\ KindCount(music_count, video_count, u, kind) = Cardinality(Charged(u, kind))

\* C37: in every reachable state every owner's stored rate-window count, for
\* the stored window date, is at most the daily limit, also when admission
\* attempts of the owner interleave.
C37_StoredCountWithinLimit ==
  \A u \in Owners :
    daily_count_date[u] # NULL => daily_count[u] <= DAILY_LIMIT_PER_USER

\* The payloads of the jobs not yet finalized: waiting in a queue, in a
\* worker's hand, or held by a finalizer task.
Payloads ==
  UNION {{[d |-> user_queues[u][i].d, jid |-> user_queues[u][i].jid] :
            i \in 1..Len(user_queues[u])} : u \in Owners}
    \cup {[d |-> cur[u].d, jid |-> cur[u].jid] : u \in {v \in Owners : cur[v] # NoJob}}
    \cup {[d |-> f.d, jid |-> f.jid] : f \in finalizers}

\* C38: each enqueued job carries its own record: the payload of a job names
\* the id, the kind and the cost of that job's row, and no two jobs share a
\* payload, also when the owner is admitted again while the first job waits or
\* runs.
C38_JobCarriesOwnRecord ==
  /\ \A x \in Payloads :
       /\ dicts[x.d].conversion_id = x.jid
       /\ dicts[x.d].cost = conversions[x.jid].cost
       /\ dicts[x.d].type = conversions[x.jid].type
  /\ \A x, y \in Payloads : x.jid # y.jid => x.d # y.d

\* The owners whose worker is inside run_in_executor: a call of the conversion
\* engine is in flight.  The gate units taken and not released.
InFlight == {u \in Owners : wpc[u] = "producing"}
UnitsHeld == GLOBAL_CONCURRENCY - sem_value

\* The jobs whose production is in flight.
InFlightJobs == {cur[u].jid : u \in InFlight}

====
